---- MODULE Spec2Model ----
(***************************************************************************)
(* Transaction lifecycle of the payment backend: the user endpoints        *)
(* (TransactionViewSet), the admin endpoints (AdminTransactionViewSet),    *)
(* the admin update serializer and the pre_save / post_save notification   *)
(* signals.  One transaction row is followed from creation; every user has *)
(* at most one request in flight, requests of different users interleave   *)
(* at the database statements they execute: the SELECT of get_object /     *)
(* queryset.get, the SELECT of the pre_save handler, the UPDATE of         *)
(* Model.save and, after it, the post_save handler and the response.       *)
(* The row carries the columns the handlers decide on (user, status,       *)
(* processing_admin, transaction_completion_document, reference_number);   *)
(* notes and the other                                                     *)
(* data columns are written the same way and decide nothing.  The Django   *)
(* admin site (TransactionAdmin) and the deletion of users are outside the *)
(* model: it covers the REST endpoints of the two viewsets.                *)
(*                                                                         *)
(* Spec follows the transaction row and counts the dispatches of the       *)
(* post_save handler.  SpecNotify follows the notification service that    *)
(* these handlers call: the Notification rows, the FCM devices and the     *)
(* preferences, one signal handler at a time, split at the statements      *)
(* between which the recipient or an administrator can act on a            *)
(* Notification (mark_read, mark_as_read, mark_as_sent).                   *)
(* SpecRequests is Spec for the first MaxRequests requests; the rules on   *)
(* what a handler answers from the row it reads are checked there.         *)
(* SpecDevices adds the owners of the FCM devices to SpecNotify, SpecRead  *)
(* follows mark_read requests on a table of Notification rows, SpecStamps  *)
(* every writer of a Notification's status during a push (the change form  *)
(* of the admin site is outside the model, its two actions are inside).    *)
(* SpecAuth follows the password reset of the users app: forgot_password,  *)
(* reset_password and the OTP that OTPManager keeps in the cache, with     *)
(* verify_otp split between its cache.get and its cache.delete.            *)
(***************************************************************************)
EXTENDS Integers, Sequences, FiniteSets, TLC

\* ---------------------------------------------------------------- users
Null == "null"
Absent == "absent"

Users == {"u1", "a1", "a2"}
\* users with is_staff = True (and is_active = True)
Staff == {"a1", "a2"}
\* users that create the transaction: a plain user or a staff user
Owners == {"u1", "a1"}

is_staff(user) == user \in Staff

\* number of requests issued after the creation of the transaction
MaxOps == 3

\* ------------------------------------------------------ TransactionStatus
PENDING == "pending"
PROCESSING == "processing"
COMPLETED == "completed"
FAILED == "failed"
CANCELLED == "cancelled"
TransactionStatus == {PENDING, PROCESSING, COMPLETED, FAILED, CANCELLED}
Terminal == {COMPLETED, FAILED, CANCELLED}

\* a stored file reference
File == "file"

\* ------------------------------------------------------------------ state
VARIABLES
    tx,          \* the stored Transaction row
    req,         \* per user: the request in flight and the instance it holds
    resp,        \* the last response sent
    ops,         \* requests issued so far
    claimedBy,   \* staff users whose detail view answered "claimed by you"
    nDispatch,   \* calls of notify_user_transaction_update
    notifications, \* the Notification rows, in order of creation
    devices,     \* per FCMDevice: is_active
    prefs,       \* per user: the NotificationPreference row
    job,         \* the signal handler that is running, and its position
    attempts,    \* per FCMDevice: send_to_device calls of the running event
    raised,      \* an exception has left a signal handler
    nEvents,     \* status changes saved in SpecNotify
    cache,       \* the Django cache: per key the stored OTP
    verify,      \* per client: the reset_password request in flight
    accepted     \* the stored OTPs verify_otp has returned True for

\* the state of the users app
uvars == <<cache, verify, accepted>>

nvars == <<notifications, devices, prefs, job, attempts, raised, nEvents,
           cache, verify, accepted>>

vars == <<tx, req, resp, ops, claimedBy, nDispatch,
          notifications, devices, prefs, job, attempts, raised, nEvents,
          cache, verify, accepted>>

\* ------------------------------------------------------------- accounts
\* what a client sends as email, in lower case: the address of the active
\* account of u1, of an account that registered and was not activated, an
\* address no account has, and a string EmailField rejects
Emails == {"u1@kc.io", "new@kc.io", "nobody@kc.io", "nobody"}

\* serializers.EmailField: the well-formed addresses
WellFormed == {"u1@kc.io", "new@kc.io", "nobody@kc.io"}

\* the User rows, by email
Registered == {"u1@kc.io", "new@kc.io"}

\* User.is_active
account_is_active(email) == email = "u1@kc.io"

\* generate_otp: six random digits
Codes == {"111111", "222222"}

Purposes == {"activation", "password_reset"}

\* f"otp_{purpose}_{email}"
cache_key(purpose, email) == <<"otp", purpose, email>>

CacheKeys == {cache_key(purpose, email) : purpose \in Purposes,
                                         email \in Registered}

\* clients that send reset_password requests
Clients == {"c1", "c2"}

\* cache.get of a key the cache does not hold: None
NoOtp == [otp |-> Null, id |-> -1]

\* no reset_password request of the client is in flight
IdleVerify == [pc |-> "idle", email |-> Null, otp |-> Null,
               stored_otp |-> NoOtp]

\* the cache after the registration of new@kc.io (store_otp with purpose
\* activation); id numbers the calls of store_otp and is not read by the code
RegisteredCache ==
    [k \in CacheKeys |->
        IF k = cache_key("activation", "new@kc.io")
        THEN [otp |-> "111111", id |-> 0] ELSE NoOtp]

\* reference_number of an instance that was never saved: None
NoReference == <<>>

\* the row before Transaction.objects.create
NoTransaction ==
    [exists |-> FALSE, user |-> Null, status |-> PENDING,
     processing_admin |-> Null, transaction_completion_document |-> Null,
     reference_number |-> NoReference]

IdleRequest ==
    [pc |-> "idle", kind |-> "none", read_status |-> PENDING,
     inst |-> NoTransaction, admin_user |-> Null,
     notify_user_action |-> "none", notify_admin_user |-> Null,
     changed |-> FALSE]

NoResponse ==
    [user |-> Null, op |-> "none", code |-> 0, status |-> Null,
     processing_admin |-> Null]

\* a response that serializes the instance the handler holds
Response(user, op, code, inst) ==
    [user |-> user, op |-> op, code |-> code, status |-> inst.status,
     processing_admin |-> inst.processing_admin]

ErrorResponse(user, op, code) ==
    [user |-> user, op |-> op, code |-> code, status |-> Null,
     processing_admin |-> Null]

\* an admin detail response that shows the requester as processing admin
ShowsOwnClaim(r) ==
    /\ r.op = "admin_view"
    /\ r.code = 200
    /\ r.status = "processing"
    /\ r.processing_admin = r.user

\* ------------------------------------------------------- Transaction
\* uuid.uuid4(): a value that differs from one request to the next
uuid4 == ops

\* save() that generates a reference number whatever the instance holds
save_Regenerates(instance) ==
    [instance EXCEPT !.reference_number = <<"TXN", uuid4>>]

\* save(): a reference number is generated if the instance has none
save(instance) ==
    IF instance.reference_number = NoReference
    THEN [instance EXCEPT !.reference_number = <<"TXN", uuid4>>]
    ELSE instance

\* ------------------------------------------- TransactionCreateSerializer
\* request bodies of POST /transactions/: keys that are not among
\* Meta.fields, each absent or with a value the client chose
CreatePayloads ==
    [status : {Absent, PROCESSING, COMPLETED},
     user : {Absent} \cup Users,
     processing_admin : {Absent} \cup Staff]

\* a body with none of these keys
DeclaredFieldsOnly ==
    [status |-> Absent, user |-> Absent, processing_admin |-> Absent]

\* to_internal_value that lets every key of the body through
to_internal_value_AllKeys(data) == data

\* to_internal_value(): validated_data has the declared fields only
to_internal_value(data) ==
    [k \in DOMAIN data |-> Absent]

\* create(): user is the requester, status is forced to PENDING, the rest
\* of validated_data goes to Transaction.objects.create
create(validated_data, user) ==
    save([exists |-> TRUE,
          user |-> user,
          status |-> PENDING,
          processing_admin |->
              IF validated_data.processing_admin = Absent THEN Null
              ELSE validated_data.processing_admin,
          transaction_completion_document |-> Null,
          reference_number |-> NoReference])

\* the transaction a request with declared fields only creates
NewTransaction(user) == create(to_internal_value(DeclaredFieldsOnly), user)

\* --------------------------------------------- AdminTransactionViewSet
\* get_queryset(): none() for a non-staff requester, all rows otherwise
AdminQuerysetHas(user) == tx.exists /\ is_staff(user)

\* permission class of the admin viewset
IsAdminOrReadOnly(user, method) ==
    method \in {"GET", "HEAD", "OPTIONS"} \/ is_staff(user)

\* check_transaction_access without the rule for PROCESSING rows
check_transaction_access_AnyStaff(transaction, user) ==
    transaction.user = user \/ is_staff(user)

check_transaction_access(transaction, user) ==
    IF transaction.user = user THEN TRUE
    ELSE IF ~is_staff(user) THEN FALSE
    ELSE IF transaction.status = PROCESSING
         THEN transaction.processing_admin = user
    ELSE TRUE

\* list(): the condition under which the detail view claims the row
ViewClaims(transaction, user) ==
    /\ transaction.status = PENDING
    /\ is_staff(user)
    /\ transaction.user # user

\* list() without the assignment of the status
ClaimedInstance_KeepsStatus(transaction, user) ==
    [transaction EXCEPT !.processing_admin = user]

\* list(): the instance after the two assignments before save()
ClaimedInstance(transaction, user) ==
    [transaction EXCEPT !.status = PROCESSING, !.processing_admin = user]

\* update(): the additional check for PROCESSING rows
UpdateForbidden(instance, user) ==
    /\ instance.status = PROCESSING
    /\ instance.processing_admin # user
    /\ instance.user # user

\* ------------------------------------ AdminTransactionUpdateSerializer
\* request payloads: a key is absent, null (files only) or a value
Payloads ==
    [status : TransactionStatus \cup {Absent},
     transaction_completion_document : {Absent, Null, File}]

\* valid_transitions that also lists each status as its own target
valid_transitions_OrSame(current_status) ==
    IF current_status = PENDING
    THEN {PENDING, PROCESSING, FAILED, CANCELLED}
    ELSE IF current_status = PROCESSING
    THEN {PROCESSING, COMPLETED, FAILED}
    ELSE {}

valid_transitions(current_status) ==
    IF current_status = PENDING THEN {PROCESSING, FAILED, CANCELLED}
    ELSE IF current_status = PROCESSING THEN {COMPLETED, FAILED}
    ELSE {}

\* validate_status(): TRUE when the value is accepted
validate_status(instance, value) ==
    /\ instance.status \in {PENDING, PROCESSING}
    /\ value \in valid_transitions(instance.status)

\* validate(): TRUE when the attrs are accepted
validate(instance, attrs) ==
    LET status_value == IF attrs.status # Absent THEN attrs.status
                        ELSE instance.status
        supplied == attrs.transaction_completion_document = File
        stored == instance.transaction_completion_document # Null
    IN  status_value = COMPLETED => (supplied \/ stored)

is_valid(instance, attrs) ==
    /\ attrs.status # Absent => validate_status(instance, attrs.status)
    /\ validate(instance, attrs)

\* ModelSerializer.update(): setattr for every validated key
SerializerUpdate(instance, attrs) ==
    [instance EXCEPT
        !.status = IF attrs.status # Absent THEN attrs.status ELSE @,
        !.transaction_completion_document =
            IF attrs.transaction_completion_document # Absent
            THEN attrs.transaction_completion_document ELSE @]

\* ------------------------------------------------- TransactionViewSet
\* get_queryset(): only the requester's own rows
UserQuerysetHas(user) == tx.exists /\ tx.user = user

\* destroy() / cancel(): the instance after the assignment before save()
CancelledInstance(transaction) ==
    [transaction EXCEPT !.status = CANCELLED]

\* --------------------------------------------------------------- signals
\* a status_action_map that announces every change as a completion
status_action_map_Completed(new_status) ==
    IF new_status \in {PROCESSING, COMPLETED, FAILED, CANCELLED}
    THEN COMPLETED ELSE "none"

\* handle_transaction_status_change: status_action_map.get(new_status)
status_action_map(new_status) ==
    IF new_status \in {PROCESSING, COMPLETED, FAILED, CANCELLED}
    THEN new_status ELSE "none"

\* -------------------------------------------------- notification models
\* NotificationStatus: 'pending' and 'failed' are the strings of PENDING and
\* FAILED above
SENT == "sent"
DELIVERED == "delivered"
READ == "read"
NotificationStatus == {PENDING, SENT, DELIVERED, FAILED, READ}

\* NotificationType
TRANSACTION_CREATED == "transaction_created"
TRANSACTION_UPDATED == "transaction_updated"

\* registered FCM devices: u1 has two, a1 has one, a2 has none
Devices == {"u1_phone", "u1_web", "a1_phone"}

device_user(d) == IF d = "a1_phone" THEN "a1" ELSE "u1"

\* a user without a NotificationPreference row
NoPreferences ==
    [exists |-> FALSE, admin_new_transactions |-> FALSE,
     push_transaction_updated |-> FALSE, push_transaction_completed |-> FALSE]

Preference(admin_new, push_updated, push_completed) ==
    [exists |-> TRUE, admin_new_transactions |-> admin_new,
     push_transaction_updated |-> push_updated,
     push_transaction_completed |-> push_completed]

\* create_notification_preferences: the row created with the user
DefaultPreferences(user) == Preference(is_staff(user), TRUE, TRUE)

\* the rows a user can have: none, and two rows that between them enable and
\* disable each of the three switches
PreferenceRows ==
    {NoPreferences, Preference(TRUE, TRUE, FALSE),
     Preference(FALSE, FALSE, TRUE)}

\* sent_at, read_at of a row that was not sent, not read: NULL
NoTime == <<>>

\* timezone.now(), models.functions.Now(): the time of the request
timezone_now == <<ops>>

\* Notification.objects.create: status defaults to pending, no timestamps
NewNotification(recipient, notification_type) ==
    [recipient |-> recipient, notification_type |-> notification_type,
     status |-> PENDING, sent_at |-> NoTime, read_at |-> NoTime]

\* mark_as_read that writes the status and leaves read_at as it is
mark_as_read_StatusOnly(notification) ==
    [notification EXCEPT !.status = READ]

\* Notification.mark_as_read
mark_as_read(notification) ==
    IF notification.status # READ
    THEN [notification EXCEPT !.status = READ, !.read_at = timezone_now]
    ELSE notification

\* ------------------------------------------------- notification services
\* a preference check that skips nobody
Skips_Nobody(p) == FALSE

\* notify_admins_new_transaction / send_to_admins:
\* "if prefs and not prefs.admin_new_transactions: continue"
Skips(p) == p.exists /\ ~p.admin_new_transactions

\* a push condition that reads push_transaction_updated for every action
PushEnabled_UpdatedOnly(user_prefs, action) ==
    \/ ~user_prefs.exists
    \/ user_prefs.push_transaction_updated

\* notify_user_transaction_update: the condition of send_push_notification
PushEnabled(user_prefs, action) ==
    \/ ~user_prefs.exists
    \/ action = "completed" /\ user_prefs.push_transaction_completed
    \/ /\ action \in {"processing", "failed", "cancelled"}
       /\ user_prefs.push_transaction_updated

\* notify_user_transaction_update: type_map.get(action, TRANSACTION_UPDATED)
type_map(action) ==
    IF action = "processing" THEN "transaction_processing"
    ELSE IF action = "completed" THEN "transaction_completed"
    ELSE IF action = "failed" THEN "transaction_failed"
    ELSE IF action = "cancelled" THEN "transaction_cancelled"
    ELSE TRANSACTION_UPDATED

\* send_to_user: the devices of FCMDevice.objects.filter(user, is_active)
ActiveDevices(devs, user) ==
    {d \in Devices : device_user(d) = user /\ devs[d]}

\* send_to_user that leaves is_active as it is
AfterSend_KeepsActive(devs, results) == devs

\* send_to_user: a device whose send_to_device returned False is deactivated
AfterSend(devs, results) ==
    [d \in Devices |->
        IF d \in DOMAIN results /\ ~results[d] THEN FALSE ELSE devs[d]]

\* send_to_user: successful_sends
successful_sends(results) == Cardinality({d \in DOMAIN results : results[d]})

\* send_push_notification: the row after save(update_fields=[status, ...])
PushResult(notification, success_count) ==
    IF success_count > 0
    THEN [notification EXCEPT !.status = SENT, !.sent_at = timezone_now]
    ELSE [notification EXCEPT !.status = FAILED]

\* send_to_admins: the devices its calls of send_to_user reach
AdminDevices(devs, p) ==
    {d \in Devices : /\ is_staff(device_user(d))
                     /\ ~Skips(p[device_user(d)])
                     /\ devs[d]}

\* a signal handler that lets the exception through
except_Nothing(site) == FALSE

\* the signal handlers: "except Exception" around the whole body
except_Exception(site) == TRUE

\* no signal handler is running; fault tells where an exception of the
\* running handler was caught: in send_push_notification ("push") or in the
\* signal handler itself ("handler")
IdleJob ==
    [handler |-> "none", pc |-> "idle", admins |-> {}, notification |-> 0,
     action |-> "none", duplicate |-> FALSE, fault |-> "none"]

NoAttempts == [d \in Devices |-> 0]

\* status changes saved after the creation in SpecNotify
MaxEvents == 2

\* ------------------------------------------------------------------ Init
Init ==
    /\ tx = NoTransaction
    /\ req = [u \in Users |-> IdleRequest]
    /\ resp = NoResponse
    /\ ops = 0
    /\ claimedBy = {}
    /\ nDispatch = 0
    /\ notifications = <<>>
    /\ devices = [d \in Devices |-> TRUE]
    /\ prefs = [u \in Users |-> DefaultPreferences(u)]
    /\ job = IdleJob
    /\ attempts = NoAttempts
    /\ raised = FALSE
    /\ nEvents = 0
    /\ cache = RegisteredCache
    /\ verify = [c \in Clients |-> IdleVerify]
    /\ accepted = <<>>

\* a request is answered at once: nothing is written
Answer(u, r) ==
    /\ resp' = r
    /\ ops' = ops + 1
    /\ UNCHANGED <<tx, req, claimedBy, nDispatch, uvars>>
    /\ UNCHANGED nvars

\* a request goes on to instance.save()
BeginSave(u, kind, instance, admin_user) ==
    /\ req' = [req EXCEPT ![u] =
                 [pc |-> "presave", kind |-> kind, read_status |-> tx.status,
                  inst |-> instance, admin_user |-> admin_user,
                  notify_user_action |-> "none", notify_admin_user |-> Null,
                  changed |-> FALSE]]
    /\ ops' = ops + 1
    /\ UNCHANGED <<tx, resp, claimedBy, nDispatch, uvars>>
    /\ UNCHANGED nvars

CanStart(u) == req[u].pc = "idle" /\ ops < MaxOps

\* TransactionViewSet.create
Create(u) ==
    /\ ~tx.exists
    /\ u \in Owners
    /\ \E data \in CreatePayloads : tx' = create(to_internal_value(data), u)
    /\ resp' = Response(u, "create", 201, tx')
    /\ UNCHANGED <<req, ops, claimedBy, nDispatch, uvars>>
    /\ UNCHANGED nvars

\* TransactionViewSet.list with transaction_id (retrieve redirects to it)
OwnerView(u) ==
    /\ CanStart(u)
    /\ tx.exists
    /\ IF UserQuerysetHas(u)
       THEN Answer(u, Response(u, "owner_view", 200, tx))
       ELSE Answer(u, ErrorResponse(u, "owner_view", 404))

\* update with a validate that returns attrs: valid fields go on to save()
OwnerUpdate_Saves(u, fields_valid) ==
    /\ CanStart(u)
    /\ tx.exists
    /\ IF ~UserQuerysetHas(u)
       THEN Answer(u, ErrorResponse(u, "owner_update", 404))
       ELSE IF tx.status # PENDING
       THEN Answer(u, ErrorResponse(u, "owner_update", 400))
       ELSE IF ~fields_valid
       THEN Answer(u, ErrorResponse(u, "owner_update", 400))
       ELSE BeginSave(u, "owner_update", tx, Null)

\* TransactionViewSet.update: TransactionUpdateSerializer.validate has no
\* return statement, so run_validation's "assert value is not None" fails
\* for every payload whose fields are valid; save() is never reached
OwnerUpdate(u, fields_valid) ==
    /\ CanStart(u)
    /\ tx.exists
    /\ IF ~UserQuerysetHas(u)
       THEN Answer(u, ErrorResponse(u, "owner_update", 404))
       ELSE IF tx.status # PENDING
       THEN Answer(u, ErrorResponse(u, "owner_update", 400))
       ELSE IF ~fields_valid
       THEN Answer(u, ErrorResponse(u, "owner_update", 400))
       ELSE Answer(u, ErrorResponse(u, "owner_update", 500))

\* destroy and cancel without the test of instance.status
OwnerCancel_AnyStatus(u, kind) ==
    /\ CanStart(u)
    /\ tx.exists
    /\ IF ~UserQuerysetHas(u)
       THEN Answer(u, ErrorResponse(u, kind, 404))
       ELSE BeginSave(u, kind, CancelledInstance(tx), Null)

\* TransactionViewSet.destroy and TransactionViewSet.cancel, up to save()
OwnerCancel(u, kind) ==
    /\ CanStart(u)
    /\ tx.exists
    /\ IF ~UserQuerysetHas(u)
       THEN Answer(u, ErrorResponse(u, kind, 404))
       ELSE IF tx.status # PENDING
       THEN Answer(u, ErrorResponse(u, kind, 400))
       ELSE BeginSave(u, kind, CancelledInstance(tx), Null)

destroy(u) == OwnerCancel(u, "destroy")

cancel(u) == OwnerCancel(u, "cancel")

\* AdminTransactionViewSet.list with transaction_id, up to save()
AdminView(u) ==
    /\ CanStart(u)
    /\ tx.exists
    /\ IF ~AdminQuerysetHas(u)
       THEN Answer(u, ErrorResponse(u, "admin_view", 404))
       ELSE IF ~check_transaction_access(tx, u)
       THEN Answer(u, ErrorResponse(u, "admin_view", 403))
       ELSE IF ViewClaims(tx, u)
       THEN BeginSave(u, "admin_view", ClaimedInstance(tx, u), Null)
       ELSE Answer(u, Response(u, "admin_view", 200, tx))

\* AdminTransactionViewSet.update, up to serializer.save()
AdminUpdate(u, attrs) ==
    /\ CanStart(u)
    /\ tx.exists
    /\ IF ~IsAdminOrReadOnly(u, "PATCH")
       THEN Answer(u, ErrorResponse(u, "admin_update", 403))
       ELSE IF ~AdminQuerysetHas(u)
       THEN Answer(u, ErrorResponse(u, "admin_update", 404))
       ELSE IF ~check_transaction_access(tx, u)
       THEN Answer(u, ErrorResponse(u, "admin_update", 403))
       ELSE IF UpdateForbidden(tx, u)
       THEN Answer(u, ErrorResponse(u, "admin_update", 403))
       ELSE IF ~is_valid(tx, attrs)
       THEN Answer(u, ErrorResponse(u, "admin_update", 400))
       ELSE BeginSave(u, "admin_update", SerializerUpdate(tx, attrs), u)

\* pre_save: handle_transaction_status_change reads the stored row
\* admin_user: _admin_user, else processing_admin, else the first active
\* staff user in the User ordering (-created_at): any staff user may be it
NotifyAdminUsers(r) ==
    IF r.admin_user # Null THEN {r.admin_user}
    ELSE IF r.inst.processing_admin # Null THEN {r.inst.processing_admin}
    ELSE Staff

StatusChanged(old_status, new_status) == old_status # new_status

PreSave(u) ==
    /\ req[u].pc = "presave"
    /\ LET r == req[u]
           action == status_action_map(r.inst.status)
       IN  IF StatusChanged(tx.status, r.inst.status) /\ action # "none"
           THEN \E a \in NotifyAdminUsers(r) :
                  req' = [req EXCEPT ![u].pc = "write",
                                     ![u].notify_user_action = action,
                                     ![u].notify_admin_user = a]
           ELSE req' = [req EXCEPT ![u].pc = "write"]
    /\ UNCHANGED <<tx, resp, ops, claimedBy, nDispatch, uvars>>
    /\ UNCHANGED nvars

\* Model.save(): the UPDATE writes every column of the instance
SavedRow(stored, instance) == save(instance)

Write(u) ==
    /\ req[u].pc = "write"
    /\ tx' = SavedRow(tx, req[u].inst)
    /\ req' = [req EXCEPT ![u].pc = "postsave",
                          ![u].changed = StatusChanged(tx.status, tx'.status)]
    /\ UNCHANGED <<resp, ops, claimedBy, nDispatch, uvars>>
    /\ UNCHANGED nvars

\* post_save: handle_transaction_updated, then the handler's response
PostSave(u) ==
    /\ req[u].pc = "postsave"
    /\ nDispatch' = IF req[u].notify_user_action # "none"
                    THEN nDispatch + 1 ELSE nDispatch
    /\ resp' = Response(u, req[u].kind, 200, req[u].inst)
    /\ claimedBy' = IF ShowsOwnClaim(resp') THEN claimedBy \cup {u}
                    ELSE claimedBy
    /\ req' = [req EXCEPT ![u] = IdleRequest]
    /\ UNCHANGED <<tx, ops>>
    /\ UNCHANGED nvars

Next ==
    \/ \E u \in Users : Create(u)
    \/ \E u \in Users : OwnerView(u)
    \/ \E u \in Users, v \in BOOLEAN : OwnerUpdate(u, v)
    \/ \E u \in Users : destroy(u)
    \/ \E u \in Users : cancel(u)
    \/ \E u \in Users : AdminView(u)
    \/ \E u \in Users, attrs \in Payloads : AdminUpdate(u, attrs)
    \/ \E u \in Users : PreSave(u)
    \/ \E u \in Users : Write(u)
    \/ \E u \in Users : PostSave(u)

Spec == Init /\ [][Next]_vars

\* ------------------------------------------------- notification handlers
InitNotify ==
    /\ tx = NoTransaction
    /\ req = [u \in Users |-> IdleRequest]
    /\ resp = NoResponse
    /\ ops = 0
    /\ claimedBy = {}
    /\ nDispatch = 0
    /\ notifications = <<>>
    /\ devices = [d \in Devices |-> TRUE]
    /\ prefs \in [Users -> PreferenceRows]
    /\ job = IdleJob
    /\ attempts = NoAttempts
    /\ raised = FALSE
    /\ nEvents = 0
    /\ cache = RegisteredCache
    /\ verify = [c \in Clients |-> IdleVerify]
    /\ accepted = <<>>

\* an exception at site unwinds to the "except" of the signal handler
Raise(site) ==
    /\ job' = [job EXCEPT !.pc = "return", !.fault = "handler"]
    /\ raised' = (raised \/ ~except_Exception(site))

\* Transaction.objects.create: the INSERT, then post_save with created=True
\* enters handle_transaction_created, which iterates the active staff users
handle_transaction_created(u) ==
    /\ job.handler = "none"
    /\ ~tx.exists
    /\ u \in Owners
    /\ tx' = NewTransaction(u)
    /\ job' = [IdleJob EXCEPT !.handler = "handle_transaction_created",
                              !.pc = "admins", !.admins = Staff]
    /\ attempts' = NoAttempts
    /\ UNCHANGED <<req, resp, ops, claimedBy, nDispatch, uvars>>
    /\ UNCHANGED <<notifications, devices, prefs, raised, nEvents>>

\* notify_admins_new_transaction: the loop body for one admin, up to
\* send_push_notification; the query or the INSERT may raise
notify_admins_new_transaction(a) ==
    /\ job.handler = "handle_transaction_created"
    /\ job.pc = "admins"
    /\ a \in job.admins
    /\ \/ /\ Skips(prefs[a])
          /\ job' = [job EXCEPT !.admins = @ \ {a}]
          /\ UNCHANGED <<notifications, raised>>
       \/ /\ ~Skips(prefs[a])
          /\ notifications' =
                Append(notifications, NewNotification(a, TRANSACTION_CREATED))
          /\ job' = [job EXCEPT !.admins = @ \ {a}, !.pc = "push",
                                !.notification = Len(notifications) + 1]
          /\ UNCHANGED raised
       \/ /\ Raise("create")
          /\ UNCHANGED notifications
    /\ UNCHANGED <<tx, req, resp, ops, claimedBy, nDispatch, uvars>>
    /\ UNCHANGED <<devices, prefs, attempts, nEvents>>

\* send_push_notification: send_to_user over the recipient's active devices,
\* then the save of status and sent_at; an exception in send_to_user is
\* caught in send_push_notification and the row saved as failed
send_push_notification ==
    /\ job.pc = "push"
    /\ LET n == job.notification
           user == notifications[n].recipient
           after == IF job.handler = "handle_transaction_created"
                    THEN "admins" ELSE "return"
       IN  \/ \E results \in [ActiveDevices(devices, user) -> BOOLEAN] :
                /\ devices' = AfterSend(devices, results)
                /\ attempts' = [d \in Devices |->
                                  IF d \in DOMAIN results THEN attempts[d] + 1
                                  ELSE attempts[d]]
                /\ notifications' =
                      [notifications EXCEPT
                          ![n] = PushResult(@, successful_sends(results))]
                /\ job' = [job EXCEPT !.pc = after]
           \/ /\ notifications' =
                    [notifications EXCEPT ![n] = PushResult(@, 0)]
              /\ job' = [job EXCEPT !.pc = after, !.fault = "push"]
              /\ UNCHANGED <<devices, attempts>>
    /\ UNCHANGED <<tx, req, resp, ops, claimedBy, nDispatch, uvars>>
    /\ UNCHANGED <<prefs, raised, nEvents>>

\* notify_admins_new_transaction, after the loop: send_to_admins calls
\* send_to_user for every active staff user the preference does not skip
send_to_admins ==
    /\ job.handler = "handle_transaction_created"
    /\ job.pc = "admins"
    /\ job.admins = {}
    /\ \/ \E results \in [AdminDevices(devices, prefs) -> BOOLEAN] :
            /\ devices' = AfterSend(devices, results)
            /\ attempts' = [d \in Devices |->
                              IF d \in DOMAIN results THEN attempts[d] + 1
                              ELSE attempts[d]]
            /\ job' = [job EXCEPT !.pc = "return"]
            /\ UNCHANGED raised
       \/ /\ Raise("send_to_admins")
          /\ UNCHANGED <<devices, attempts>>
    /\ UNCHANGED <<tx, req, resp, ops, claimedBy, nDispatch, uvars>>
    /\ UNCHANGED <<notifications, prefs, nEvents>>

\* the statuses a save() writes: a transition of the status, or the status
\* the row already has when an overlapping save() wrote it first
SavedStatuses(transaction) ==
    valid_transitions(transaction.status)
        \cup ({transaction.status} \ {PENDING})

\* a save() that pre_save marked with _notify_user_action: the UPDATE, then
\* post_save enters handle_transaction_updated
handle_transaction_updated(new_status) ==
    /\ job.handler = "none"
    /\ tx.exists
    /\ nEvents < MaxEvents
    /\ new_status \in SavedStatuses(tx)
    /\ tx' = SavedRow(tx, [tx EXCEPT !.status = new_status])
    /\ job' = [IdleJob EXCEPT !.handler = "handle_transaction_updated",
                              !.pc = "notify",
                              !.action = status_action_map(new_status),
                              !.duplicate = ~StatusChanged(tx.status,
                                                           new_status)]
    /\ attempts' = NoAttempts
    /\ nEvents' = nEvents + 1
    /\ UNCHANGED <<req, resp, ops, claimedBy, nDispatch, uvars>>
    /\ UNCHANGED <<notifications, devices, prefs, raised>>

\* notify_user_transaction_update, up to send_push_notification
notify_user_transaction_update ==
    /\ job.handler = "handle_transaction_updated"
    /\ job.pc = "notify"
    /\ \/ /\ notifications' =
                Append(notifications,
                       NewNotification(tx.user, type_map(job.action)))
          /\ job' = [job EXCEPT
                       !.notification = Len(notifications) + 1,
                       !.pc = IF PushEnabled(prefs[tx.user], job.action)
                              THEN "push" ELSE "return"]
          /\ UNCHANGED raised
       \/ /\ Raise("create")
          /\ UNCHANGED notifications
    /\ UNCHANGED <<tx, req, resp, ops, claimedBy, nDispatch, uvars>>
    /\ UNCHANGED <<devices, prefs, attempts, nEvents>>

\* the signal handler returns to save(), save() to the view, and the view
\* sends its response
handler_return ==
    /\ job.pc = "return"
    /\ job' = IdleJob
    /\ attempts' = NoAttempts
    /\ UNCHANGED <<tx, req, resp, ops, claimedBy, nDispatch, uvars>>
    /\ UNCHANGED <<notifications, devices, prefs, raised, nEvents>>

\* the row the recipient and the administrators act on: the newest one
Newest == Len(notifications)

\* NotificationViewSet.mark_read with one id of the requester
mark_read(u, i) ==
    /\ i \in DOMAIN notifications
    /\ notifications[i].recipient = u
    /\ notifications[i].status # READ
    /\ notifications' = [notifications EXCEPT
                            ![i].status = READ, ![i].read_at = timezone_now]
    /\ UNCHANGED <<tx, req, resp, ops, claimedBy, nDispatch, uvars>>
    /\ UNCHANGED <<devices, prefs, job, attempts, raised, nEvents>>

\* NotificationAdmin.mark_as_read on one selected row
admin_mark_as_read(i) ==
    /\ i \in DOMAIN notifications
    /\ notifications[i].status # READ
    /\ notifications' = [notifications EXCEPT ![i] = mark_as_read(@)]
    /\ UNCHANGED <<tx, req, resp, ops, claimedBy, nDispatch, uvars>>
    /\ UNCHANGED <<devices, prefs, job, attempts, raised, nEvents>>

\* NotificationAdmin.mark_as_sent on one selected row
mark_as_sent(i) ==
    /\ i \in DOMAIN notifications
    /\ notifications[i].status # SENT
    /\ notifications' = [notifications EXCEPT
                            ![i].status = SENT, ![i].sent_at = timezone_now]
    /\ UNCHANGED <<tx, req, resp, ops, claimedBy, nDispatch, uvars>>
    /\ UNCHANGED <<devices, prefs, job, attempts, raised, nEvents>>

NextNotify ==
    \/ \E u \in Users : handle_transaction_created(u)
    \/ \E a \in Users : notify_admins_new_transaction(a)
    \/ send_push_notification
    \/ send_to_admins
    \/ \E s \in TransactionStatus : handle_transaction_updated(s)
    \/ notify_user_transaction_update
    \/ handler_return

SpecNotify == InitNotify /\ [][NextNotify]_vars

\* the handlers together with the recipient and the administrators, for
\* users that have the preference rows created with them
NextInbox ==
    \/ NextNotify
    \/ \E u \in Users : mark_read(u, Newest)
    \/ admin_mark_as_read(Newest)
    \/ mark_as_sent(Newest)

SpecInbox == Init /\ [][NextInbox]_vars

\* FCMDeviceViewSet.activate; FCMDeviceSerializer.create (update_or_create
\* with is_active = True) does the same to a registered token
activate(d) ==
    /\ devices' = [devices EXCEPT ![d] = TRUE]
    /\ UNCHANGED <<tx, req, resp, ops, claimedBy, nDispatch, uvars>>
    /\ UNCHANGED <<notifications, prefs, job, attempts, raised, nEvents>>

\* FCMDeviceViewSet.deactivate
deactivate(d) ==
    /\ devices' = [devices EXCEPT ![d] = FALSE]
    /\ UNCHANGED <<tx, req, resp, ops, claimedBy, nDispatch, uvars>>
    /\ UNCHANGED <<notifications, prefs, job, attempts, raised, nEvents>>

\* the handlers together with the owners of the devices, for users that
\* have the preference rows created with them
NextDevices ==
    \/ NextNotify
    \/ \E d \in Devices : activate(d)
    \/ \E d \in Devices : deactivate(d)

SpecDevices == Init /\ [][NextDevices]_vars

\* ------------------------------------------------- mark_read requests
\* Notification rows of the table SpecRead starts from
MaxRows == 2

\* mark_read requests of SpecRead
MaxMarks == 2

\* the ids a request can list: those of the rows and one that no row has
NotificationIds == 1 .. (MaxRows + 1)

\* a row as the signal handlers leave it: created and not pushed
\* (preference off), or pushed with or without a successful send; the
\* owner u1 and the admin a1 have rows, a2 has none
HandledRows ==
    LET created(u) ==
          NewNotification(u, IF is_staff(u) THEN TRANSACTION_CREATED
                             ELSE type_map("processing"))
    IN  UNION {{created(u), PushResult(created(u), 1),
                PushResult(created(u), 0)} : u \in Owners}

\* validate_notification_ids that looks for the ids among all rows
validate_notification_ids_AnyRecipient(ns, user, value) ==
    value \subseteq DOMAIN ns

\* validate_notification_ids(): TRUE when no id is missing from the rows
\* of the requester
validate_notification_ids(ns, user, value) ==
    LET existing_notifications ==
          {i \in DOMAIN ns : i \in value /\ ns[i].recipient = user}
        missing_ids == value \ existing_notifications
    IN  missing_ids = {}

\* the rows of mark_read's UPDATE without exclude(status=READ)
UpdatedRows_ReadToo(ns, user, notification_ids) ==
    {i \in DOMAIN ns : i \in notification_ids /\ ns[i].recipient = user}

\* mark_read: filter(id__in, recipient).exclude(status=READ)
UpdatedRows(ns, user, notification_ids) ==
    {i \in DOMAIN ns : /\ i \in notification_ids
                        /\ ns[i].recipient = user
                        /\ ns[i].status # READ}

\* the response of mark_read
MarkReadResponse(user, notification_ids, code, updated_count) ==
    [user |-> user, op |-> "mark_read", code |-> code, status |-> Null,
     processing_admin |-> Null, notification_ids |-> notification_ids,
     marked_read |-> updated_count]

\* NotificationViewSet.mark_read with a list of ids
mark_read_request(u, notification_ids) ==
    /\ ops < MaxMarks
    /\ ops' = ops + 1
    /\ IF ~validate_notification_ids(notifications, u, notification_ids)
       THEN /\ resp' = MarkReadResponse(u, notification_ids, 400, 0)
            /\ UNCHANGED notifications
       ELSE LET rows == UpdatedRows(notifications, u, notification_ids)
            IN  /\ notifications' =
                      [i \in DOMAIN notifications |->
                         IF i \in rows
                         THEN [notifications[i] EXCEPT
                                 !.status = READ, !.read_at = timezone_now]
                         ELSE notifications[i]]
                /\ resp' = MarkReadResponse(u, notification_ids, 200,
                                            Cardinality(rows))
    /\ UNCHANGED <<tx, req, claimedBy, nDispatch, uvars>>
    /\ UNCHANGED <<devices, prefs, job, attempts, raised, nEvents>>

InitRead ==
    /\ tx = NoTransaction
    /\ req = [u \in Users |-> IdleRequest]
    /\ resp = NoResponse
    /\ ops = 0
    /\ claimedBy = {}
    /\ nDispatch = 0
    /\ notifications \in [1 .. MaxRows -> HandledRows]
    /\ devices = [d \in Devices |-> TRUE]
    /\ prefs = [u \in Users |-> DefaultPreferences(u)]
    /\ job = IdleJob
    /\ attempts = NoAttempts
    /\ raised = FALSE
    /\ nEvents = 0
    /\ cache = RegisteredCache
    /\ verify = [c \in Clients |-> IdleVerify]
    /\ accepted = <<>>

NextRead ==
    \E u \in Users, notification_ids \in SUBSET NotificationIds :
        mark_read_request(u, notification_ids)

SpecRead == InitRead /\ [][NextRead]_vars

\* ---------------------------------------- the writers of one inbox table
\* handle_transaction_updated after notify_user_transaction_update has
\* created row n: send_push_notification comes next
PendingPush(n) ==
    [IdleJob EXCEPT !.handler = "handle_transaction_updated",
                    !.pc = "push", !.action = "processing",
                    !.notification = n]

\* a2 has claimed the transaction of an owner; the handler of that save has
\* created the newest Notification row and not yet pushed it, the older
\* rows are as earlier handlers left them
InitStamps ==
    /\ ops = 0
    /\ \E u \in Owners : tx = ClaimedInstance(NewTransaction(u), "a2")
    /\ req = [u \in Users |-> IdleRequest]
    /\ resp = NoResponse
    /\ claimedBy = {}
    /\ nDispatch = 0
    /\ notifications \in
          {ns \in [1 .. MaxRows -> HandledRows] :
              ns[MaxRows] = NewNotification(tx.user, type_map("processing"))}
    /\ devices = [d \in Devices |-> TRUE]
    /\ prefs = [u \in Users |-> DefaultPreferences(u)]
    /\ job = PendingPush(MaxRows)
    /\ attempts = NoAttempts
    /\ raised = FALSE
    /\ nEvents = 0
    /\ cache = RegisteredCache
    /\ verify = [c \in Clients |-> IdleVerify]
    /\ accepted = <<>>

\* every writer of status, sent_at and read_at, on any row, at any point of
\* the push
NextStamps ==
    \/ send_push_notification
    \/ handler_return
    \/ \E u \in Users, i \in 1 .. MaxRows : mark_read(u, i)
    \/ \E i \in 1 .. MaxRows : admin_mark_as_read(i)
    \/ \E i \in 1 .. MaxRows : mark_as_sent(i)

SpecStamps == InitStamps /\ [][NextStamps]_vars

\* ------------------------------------------------------------ users app
\* forgot_password and reset_password requests of SpecAuth
MaxAuth == 4

\* OTPManager.store_otp: cache.set replaces what the key holds
store_otp(c, email, otp, purpose) ==
    [c EXCEPT ![cache_key(purpose, email)] = [otp |-> otp, id |-> ops + 1]]

\* verify_otp: "if stored_otp and stored_otp == otp"
otp_matches(stored_otp, otp) == stored_otp # NoOtp /\ stored_otp.otp = otp

\* cache.delete
cache_delete(c, key) == [c EXCEPT ![key] = NoOtp]

\* ForgotPasswordSerializer / ResetPasswordSerializer: EmailField, then
\* validate_email; the message of the first error, Null when there is none
validate_email(value) ==
    IF value \notin WellFormed THEN "Enter a valid email address."
    ELSE IF value \notin Registered
    THEN "User with this email does not exist."
    ELSE IF ~account_is_active(value) THEN "Account is not activated."
    ELSE Null

\* a response of the users app: status code and body
AuthResponse(op, code, success, message, errors) ==
    [op |-> op, code |-> code, success |-> success, message |-> message,
     errors |-> errors]

\* forgot_password: the answer of the branch that sent the mail and of the
\* branch "except User.DoesNotExist"
ForgotAccepted ==
    AuthResponse("forgot_password", 200, TRUE,
        "Password reset instructions have been sent to your email.", Null)

\* forgot_password: the answer of the branch "except Exception"
ForgotFailed ==
    AuthResponse("forgot_password", 500, FALSE,
        "Password reset request failed. Please try again later.",
        <<"general", "An unexpected error occurred.">>)

\* reset_password: the answer after set_password
ResetDone ==
    AuthResponse("reset_password", 200, TRUE,
        "Password reset successfully. You can now log in with your new password.",
        Null)

\* User.objects.get(email=email, is_active=True) finds a row
ActiveUser(email) == email \in Registered /\ account_is_active(email)

\* UserViewSet.forgot_password; sent tells whether send_mail succeeds
forgot_password(email, sent) ==
    /\ ops < MaxAuth
    /\ ops' = ops + 1
    /\ IF validate_email(email) # Null
       THEN /\ resp' = AuthResponse("forgot_password", 400, FALSE,
                  "Password reset request failed due to validation errors.",
                  <<"email", validate_email(email)>>)
            /\ UNCHANGED cache
       ELSE IF ~ActiveUser(email)
       THEN /\ resp' = ForgotAccepted
            /\ UNCHANGED cache
       ELSE /\ \E otp \in Codes :
                  cache' = store_otp(cache, email, otp, "password_reset")
            /\ resp' = IF sent
                       THEN ForgotAccepted
                       ELSE ForgotFailed
    /\ UNCHANGED <<tx, req, claimedBy, nDispatch, verify, accepted>>
    /\ UNCHANGED <<notifications, devices, prefs, job, attempts, raised,
                   nEvents>>

\* UserViewSet.reset_password up to the cache.get of verify_otp
reset_password(c, email, otp, passwords_match) ==
    /\ ops < MaxAuth
    /\ verify[c].pc = "idle"
    /\ ops' = ops + 1
    /\ IF validate_email(email) # Null \/ ~passwords_match
       THEN /\ resp' = AuthResponse("reset_password", 400, FALSE,
                  "Password reset failed due to validation errors.",
                  IF validate_email(email) # Null
                  THEN <<"email", validate_email(email)>>
                  ELSE <<"non_field_errors", "Passwords do not match.">>)
            /\ UNCHANGED verify
       ELSE IF ~ActiveUser(email)
       THEN /\ resp' = AuthResponse("reset_password", 400, FALSE,
                  "User not found.",
                  <<"email",
                    "No active account found with this email address.">>)
            /\ UNCHANGED verify
       ELSE /\ verify' = [verify EXCEPT ![c] =
                  [pc |-> "compare", email |-> email, otp |-> otp,
                   stored_otp |->
                       cache[cache_key("password_reset", email)]]]
            /\ UNCHANGED resp
    /\ UNCHANGED <<tx, req, claimedBy, nDispatch, cache, accepted>>
    /\ UNCHANGED <<notifications, devices, prefs, job, attempts, raised,
                   nEvents>>

\* verify_otp after cache.get: the comparison, cache.delete, and the rest
\* of reset_password (set_password, save, the response)
verify_otp(c) ==
    /\ verify[c].pc = "compare"
    /\ IF otp_matches(verify[c].stored_otp, verify[c].otp)
       THEN /\ cache' = cache_delete(cache,
                            cache_key("password_reset", verify[c].email))
            /\ accepted' = Append(accepted, verify[c].stored_otp.id)
            /\ resp' = ResetDone
       ELSE /\ resp' = AuthResponse("reset_password", 400, FALSE,
                  "Invalid or expired OTP code.",
                  <<"otp", "Invalid or expired OTP code.">>)
            /\ UNCHANGED <<cache, accepted>>
    /\ verify' = [verify EXCEPT ![c] = IdleVerify]
    /\ UNCHANGED <<tx, req, ops, claimedBy, nDispatch>>
    /\ UNCHANGED <<notifications, devices, prefs, job, attempts, raised,
                   nEvents>>

\* the timeout of cache.set passes: the key is gone
expire(key) ==
    /\ cache[key] # NoOtp
    /\ cache' = cache_delete(cache, key)
    /\ UNCHANGED <<tx, req, resp, ops, claimedBy, nDispatch>>
    /\ UNCHANGED <<verify, accepted>>
    /\ UNCHANGED <<notifications, devices, prefs, job, attempts, raised,
                   nEvents>>

NextAuth ==
    \/ \E email \in Emails, sent \in BOOLEAN : forgot_password(email, sent)
    \/ \E c \in Clients, email \in Emails, otp \in Codes, m \in BOOLEAN :
          reset_password(c, email, otp, m)
    \/ \E c \in Clients : verify_otp(c)
    \/ \E key \in CacheKeys : expire(key)

SpecAuth == Init /\ [][NextAuth]_vars

\* ---------------------------------------------------------------- steps
\* the UPDATE of user u's save()
WriteStep(u) == req[u].pc = "write" /\ req'[u].pc = "postsave"

\* the post_save handler and response of user u's save()
PostSaveStep(u) == req[u].pc = "postsave" /\ req'[u].pc = "idle"

\* the edges of the transaction state machine as the specification gives them
SpecEdges ==
    {<<PENDING, PROCESSING>>, <<PENDING, FAILED>>, <<PENDING, CANCELLED>>,
     <<PROCESSING, COMPLETED>>, <<PROCESSING, FAILED>>}

\* --------------------------------------------------------------- claims

\* C1: when several staff users who are not the owner open the admin detail
\* view of the same Pending transaction at overlapping times, exactly one of
\* them claims it; no second claimer receives a response that shows
\* themselves as processing_admin.
C1_SingleClaimer == Cardinality(claimedBy) <= 1

\* C2: processing_admin is set at most once: once it holds an admin it is
\* never replaced by a different admin nor reset to null.
C2_MonotonicClaim ==
    [][tx.processing_admin # Null
         => tx'.processing_admin = tx.processing_admin]_vars

\* C3: every change of the stored status is one of the five edges
\* Pending->Processing, Pending->Failed, Pending->Cancelled,
\* Processing->Completed, Processing->Failed.
C3_ForwardEdges ==
    [][tx'.status # tx.status => <<tx.status, tx'.status>> \in SpecEdges]_vars

\* C4: terminal states are absorbing: once the stored status is Completed,
\* Failed or Cancelled no operation changes it.
C4_TerminalAbsorbing ==
    [][(tx.exists /\ tx.status \in Terminal) => tx'.status = tx.status]_vars

\* C5: every write is a conditional update: it is applied only if the stored
\* status at write time equals the status the caller read; otherwise the
\* record is left unchanged.
C5_ConditionalUpdate ==
    [][\A u \in Users :
         (WriteStep(u) /\ req[u].read_status # tx.status) => tx' = tx]_vars

\* C6: a transition out of Processing (to Completed or Failed) is applied
\* only when the requesting actor is the transaction's processing_admin.
C6_OnlyProcessingAdminProgresses ==
    [][\A u \in Users :
         (WriteStep(u) /\ tx.status = PROCESSING
                       /\ tx'.status \in {COMPLETED, FAILED})
            => u = tx.processing_admin]_vars

\* C7: no transaction is ever in status Completed without a
\* transaction_completion_document.
C7_CompletedHasDocument ==
    tx.status = COMPLETED => tx.transaction_completion_document # Null

\* C8: every transition Pending->Processing, by detail view or by admin
\* update, sets processing_admin to the admin who performed it.
C8_ClaimSetsAdmin ==
    [][\A u \in Users :
         (WriteStep(u) /\ tx.status = PENDING /\ tx'.status = PROCESSING)
            => tx'.processing_admin = u]_vars

\* C9 (as claimed): processing_admin is non-null if and only if the status
\* is Processing, Completed or Failed.
C9_AdminIffClaimed ==
    tx.exists =>
        (tx.processing_admin # Null
            <=> tx.status \in {PROCESSING, COMPLETED, FAILED})

\* C9 (amended): in every state reachable through the REST endpoints, a
\* transaction that has a processing_admin is Processing, Completed or
\* Failed; Pending and Cancelled transactions have none.
C9_AdminOnlyIfClaimed ==
    tx.processing_admin # Null
        => tx.status \in {PROCESSING, COMPLETED, FAILED}

\* a claimed transaction that its processing admin has completed
C9_Witness ==
    /\ tx.status = COMPLETED
    /\ tx.processing_admin \in Staff
    /\ tx.processing_admin \in claimedBy

\* C10: the status-change dispatch happens exactly once per committed status
\* change: a save() whose write changed the stored status dispatches once,
\* a save() whose write did not change it dispatches nothing.
C10_DispatchOncePerChange ==
    [][\A u \in Users :
         PostSaveStep(u) =>
            nDispatch' = IF req[u].changed THEN nDispatch + 1
                         ELSE nDispatch]_vars

\* ------------------------------------------------ notification steps
\* the signal handler of the creation returns after its whole body has run
CreatedHandlerCompletes ==
    /\ job.handler = "handle_transaction_created"
    /\ job'.handler = "none"
    /\ job.fault # "handler"

\* transaction_created Notification rows of recipient a
CreatedCount(ns, a) ==
    Cardinality({i \in DOMAIN ns :
                    /\ ns[i].recipient = a
                    /\ ns[i].notification_type = TRANSACTION_CREATED})

\* notify_user_transaction_update has created its row and decided on the push
NotifyStep ==
    /\ job.handler = "handle_transaction_updated"
    /\ job.pc = "notify"
    /\ job'.pc \in {"push", "return"}
    /\ job'.fault = "none"

\* the owner has a preference row that disables the category of the action:
\* push_transaction_completed for "completed", push_transaction_updated for
\* "processing", "failed" and "cancelled"
CategoryDisabled(p, action) ==
    /\ p.exists
    /\ IF action = "completed" THEN ~p.push_transaction_completed
       ELSE ~p.push_transaction_updated

\* an immediate answer to user u's request
AnswerStep(u) == ops' = ops + 1 /\ req' = req /\ resp'.user = u

\* C11: creating a transaction produces exactly one transaction_created
\* Notification for each admin whose admin_new_transactions preference is
\* enabled, and none for an admin whose preference is disabled nor for a
\* user who is not an admin.
C11_OnePerOptedInAdmin ==
    [][CreatedHandlerCompletes =>
         \A a \in Users :
            /\ (is_staff(a) /\ prefs[a].exists
                            /\ prefs[a].admin_new_transactions)
                  => CreatedCount(notifications', a) = 1
            /\ (~is_staff(a) \/ (prefs[a].exists
                                    /\ ~prefs[a].admin_new_transactions))
                  => CreatedCount(notifications', a) = 0]_vars

\* the creation handler is about to return: one admin opted in and has one
\* row, the other opted out and has none
C11_Witness ==
    /\ job.handler = "handle_transaction_created"
    /\ job.pc = "return"
    /\ job.fault = "none"
    /\ \E a, b \in Staff :
          /\ prefs[a].exists /\ prefs[a].admin_new_transactions
          /\ CreatedCount(notifications, a) = 1
          /\ prefs[b].exists /\ ~prefs[b].admin_new_transactions
          /\ CreatedCount(notifications, b) = 0

\* C12: dispatch is idempotent per event: dispatching the same committed
\* event (same transaction, same target status) a second time creates no
\* additional Notification row and triggers no additional delivery attempt.
C12_IdempotentDispatch ==
    [][(job.handler = "handle_transaction_updated" /\ job.duplicate)
          => /\ Len(notifications') = Len(notifications)
             /\ \A d \in Devices : attempts'[d] <= attempts[d]]_vars

\* C13: a failure during notification handling (resolving recipients,
\* creating the Notification row, delivering to a device) is never surfaced
\* to the caller of the transition and never undoes the stored status
\* change: no exception leaves the signal handler, and the store keeps the
\* row the save() wrote.
C13_FailureNotSurfaced ==
    /\ ~raised
    /\ job.fault # "none" =>
          /\ tx.exists
          /\ job.handler = "handle_transaction_updated"
                => status_action_map(tx.status) = job.action

\* an exception was caught in the signal handler of a status change, which
\* is about to return
C13_Witness ==
    /\ job.handler = "handle_transaction_updated"
    /\ job.pc = "return"
    /\ job.fault = "handler"
    /\ ~raised
    /\ tx.status = PROCESSING

\* C14: event-after-commit ordering: a status-change notification is
\* dispatched only by a save() whose UPDATE has been applied to the store,
\* and it announces the status that this UPDATE wrote.
C14_EventAfterCommit ==
    [][nDispatch' # nDispatch =>
         \E u \in Users :
            /\ PostSaveStep(u)
            /\ req[u].notify_user_action = req[u].inst.status]_vars

\* a claim by detail view has been written, dispatched and answered
C14_Witness ==
    /\ nDispatch = 1
    /\ tx.status = PROCESSING
    /\ resp.op = "admin_view"
    /\ resp.code = 200
    /\ \A u \in Users : req[u].pc = "idle"

\* C15: notification resolution and delivery do not hold up the response of
\* the transition: no request is inside its save(), with its response still
\* to be sent, waiting for a delivery attempt.
C15_ResponseNotHeldUp == job.handler # "none" => job.pc # "push"

C17_PendingOnlyUntilAttempt ==
    \A i \in DOMAIN notifications :
        notifications[i].status = PENDING
            => (job.pc = "push" /\ job.notification = i)

\* C18: single try per device: for one dispatched event every device
\* receives at most one delivery attempt.
C18_SingleTryPerDevice == \A d \in Devices : attempts[d] <= 1

\* C19: the Delivered and Read statuses never regress: no step sets a
\* Notification that is Read or Delivered back to Pending, Sent or Failed.
C19_ReadNeverRegresses ==
    [][\A i \in DOMAIN notifications :
         notifications[i].status \in {READ, DELIVERED}
            => notifications'[i].status \notin {PENDING, SENT, FAILED}]_vars

MaxRequests == 2

RequestsLeft == ops < MaxRequests

NextRequests ==
    \/ \E u \in Users : Create(u)
    \/ \E u \in Users : RequestsLeft /\ OwnerView(u)
    \/ \E u \in Users, v \in BOOLEAN : RequestsLeft /\ OwnerUpdate(u, v)
    \/ \E u \in Users : RequestsLeft /\ destroy(u)
    \/ \E u \in Users : RequestsLeft /\ cancel(u)
    \/ \E u \in Users : RequestsLeft /\ AdminView(u)
    \/ \E u \in Users, attrs \in Payloads :
          RequestsLeft /\ AdminUpdate(u, attrs)
    \/ \E u \in Users : PreSave(u)
    \/ \E u \in Users : Write(u)
    \/ \E u \in Users : PostSave(u)

SpecRequests == Init /\ [][NextRequests]_vars

\* the step answers with one of the codes and starts no save(): the row,
\* the requests in flight and the dispatch count are as before
Refused(codes) ==
    /\ resp'.code \in codes
    /\ tx' = tx
    /\ req' = req
    /\ nDispatch' = nDispatch

\* the step answers 200 with the stored record and starts no save()
Shown ==
    /\ resp'.code = 200
    /\ resp'.status = tx.status
    /\ resp'.processing_admin = tx.processing_admin
    /\ tx' = tx
    /\ req' = req
    /\ nDispatch' = nDispatch

OwnerViewNotShown(u) == OwnerView(u) /\ ~Shown

AdminViewNotShown(u) == AdminView(u) /\ ~Shown

\* C21: whenever the owner of a transaction requests it through the user
\* endpoint or through the admin detail endpoint, the answer is the record,
\* whatever the status and the processing admin, and the request changes
\* nothing.
C21_OwnerAlwaysViews ==
    \A u \in Users :
      (tx.exists /\ tx.user = u)
        => /\ ~(ENABLED OwnerViewNotShown(u))
           /\ ~(ENABLED AdminViewNotShown(u))

\* C22: a write that takes the transaction from Pending to Cancelled is the
\* owner's, and one that takes it from Pending to Failed is a staff
\* user's; no admin other than the owner cancels a Pending transaction.
C22_ActorPolicy ==
    [][\A u \in Users :
         (WriteStep(u) /\ tx.status = PENDING)
            => /\ tx'.status = CANCELLED => u = tx.user
               /\ tx'.status = FAILED => is_staff(u)]_vars

destroyNotRefused(u, codes) == destroy(u) /\ ~Refused(codes)

cancelNotRefused(u, codes) == cancel(u) /\ ~Refused(codes)

C24_ReferenceAndOwnerImmutable ==
    /\ [](tx.exists => tx.reference_number # NoReference)
    /\ [][tx.exists =>
            /\ tx'.exists
            /\ tx'.reference_number = tx.reference_number
            /\ tx'.user = tx.user]_vars

\* an admin's claim and an update by the same admin were both saved, and
\* the reference number is still the one generated at creation
C24_Witness ==
    /\ tx.status \in {COMPLETED, FAILED}
    /\ tx.processing_admin \in Staff
    /\ tx.reference_number # NoReference
    /\ resp.op = "admin_update"
    /\ resp.code = 200

\* C25: a write of the admin detail view changes the row only if the
\* status stored at that moment is Pending and the viewer is a staff user
\* who is not the owner.
C25_ViewModifiesOnlyPending ==
    [][\A u \in Users :
         (WriteStep(u) /\ req[u].kind = "admin_view" /\ tx' # tx)
            => /\ tx.status = PENDING
               /\ is_staff(u)
               /\ u # tx.user]_vars

AdminViewNotRefused(u, codes) == AdminView(u) /\ ~Refused(codes)

AdminViewRefused(u) == AdminView(u) /\ Refused({403, 404})

AdminUpdateNotRefused(u, attrs, codes) ==
    AdminUpdate(u, attrs) /\ ~Refused(codes)

\* C26: through the admin endpoint, a Processing transaction is neither
\* shown to nor updated by a staff user other than its processing_admin
\* and its owner, who is answered 403; a transaction in any other status
\* is never refused to a staff user who asks for its detail; a non-staff
\* user who is not the owner is refused every view and every update.
C26_AdminAccessRule ==
    \A u \in Users :
      (CanStart(u) /\ tx.exists) =>
        /\ (/\ tx.status = PROCESSING
            /\ is_staff(u)
            /\ u \notin {tx.processing_admin, tx.user})
              => /\ ~(ENABLED AdminViewNotRefused(u, {403}))
                 /\ \A attrs \in Payloads :
                      ~(ENABLED AdminUpdateNotRefused(u, attrs, {403}))
        /\ (tx.status # PROCESSING /\ is_staff(u))
              => ~(ENABLED AdminViewRefused(u))
        /\ (~is_staff(u) /\ u # tx.user)
              => /\ ~(ENABLED AdminViewNotRefused(u, {403, 404}))
                 /\ \A attrs \in Payloads :
                      ~(ENABLED AdminUpdateNotRefused(u, attrs, {403, 404}))

\* a staff user who is neither the owner nor the processing admin was
\* refused an update of a Processing transaction
C26_Witness ==
    /\ resp.op = "admin_update"
    /\ resp.code = 403
    /\ resp.user \in Staff \ {tx.user, tx.processing_admin}
    /\ tx.status = PROCESSING
    /\ tx.processing_admin \in Staff

\* the pairs (current status, requested status) the claim lets through
AllowedTargets ==
    {<<PENDING, PROCESSING>>, <<PENDING, FAILED>>, <<PENDING, CANCELLED>>,
     <<PROCESSING, COMPLETED>>, <<PROCESSING, FAILED>>}

\* C27: an admin update that carries a status is refused, with the row
\* unchanged and no save() started, whenever the transaction is Completed,
\* Failed or Cancelled or the requested status is not an allowed target of
\* the current one, the current status itself included; a staff user who
\* passes the access rule is answered 400.
C27_BadStatusRejected ==
    \A u \in Users :
      (CanStart(u) /\ tx.exists) =>
        \A attrs \in Payloads :
          (/\ attrs.status # Absent
           /\ <<tx.status, attrs.status>> \notin AllowedTargets)
            => LET passes == /\ is_staff(u)
                             /\ tx.status = PROCESSING
                                  => u \in {tx.processing_admin, tx.user}
                   codes == IF passes THEN {400} ELSE {403, 404}
               IN  ~(ENABLED AdminUpdateNotRefused(u, attrs, codes))

\* a staff user's update of a Cancelled transaction was answered 400;
\* every payload without a status is valid for such a row, so the request
\* carried one
C27_Witness ==
    /\ resp.op = "admin_update"
    /\ resp.code = 400
    /\ resp.user \in Staff
    /\ tx.status = CANCELLED
    /\ tx.processing_admin = Null
    /\ \A u \in Users : req[u].pc = "idle"

\* a creation whose row is not a Pending transaction of the requester
\* without a processing admin
CreateOtherwise(u) ==
    /\ Create(u)
    /\ ~(/\ tx'.exists
         /\ tx'.status = PENDING
         /\ tx'.user = u
         /\ tx'.processing_admin = Null
         /\ resp'.code = 201
         /\ resp'.status = PENDING)

\* C28: whatever the request body holds, a creation stores a transaction
\* with status Pending, the requester as owner and no processing admin.
C28_CreatedPendingForRequester ==
    \A u \in Owners : ~tx.exists => ~(ENABLED CreateOtherwise(u))

\* a transaction was created and nothing else has happened to it
C28_Witness ==
    /\ resp.op = "create"
    /\ resp.code = 201
    /\ tx.exists
    /\ tx.user = resp.user
    /\ tx.status = PENDING
    /\ tx.processing_admin = Null
    /\ ops = 0

OwnerUpdateNotRefused(u, fields_valid, codes) ==
    OwnerUpdate(u, fields_valid) /\ ~Refused(codes)

\* the write of a request changes the stored row
WriteChanges(u) == Write(u) /\ tx' # tx

\* C29: once the transaction has left Pending, an owner update that reads
\* it is refused (400 for the owner, 404 for anybody else) with nothing
\* written, and an owner update that read it earlier, while it was still
\* Pending, has no write that changes the row: status and processing_admin
\* stay as the claim or the terminal transition left them.
C29_OwnerUpdateNeverOverwrites ==
    \A u \in Users :
      (tx.exists /\ tx.status # PENDING)
        => /\ CanStart(u) =>
                \A v \in BOOLEAN :
                  ~(ENABLED OwnerUpdateNotRefused(
                              u, v, IF u = tx.user THEN {400} ELSE {404}))
           /\ req[u].kind = "owner_update" => ~(ENABLED WriteChanges(u))

\* the owner's update read the Pending row and was answered while an
\* admin's claim was on its way; the claim has been written since, and the
\* row is the claimed one
C29_Witness ==
    /\ resp.op = "owner_update"
    /\ resp.code = 500
    /\ resp.user = tx.user
    /\ tx.status = PROCESSING
    /\ tx.processing_admin \in Staff
    /\ req[tx.user].pc = "idle"

\* an owner update with valid fields ends in an error and starts no save()
OwnerUpdateRejected(u) ==
    OwnerUpdate(u, TRUE) /\ Refused({400, 403, 404, 500})

\* C30: an update with valid field values that the owner sends for their
\* own Pending transaction is not answered with an error.
C30_ValidOwnerUpdateAccepted ==
    \A u \in Users :
      (tx.exists /\ tx.user = u /\ tx.status = PENDING)
        => ~(ENABLED OwnerUpdateRejected(u))

\* ------------------------------------------------------ delivery passes
\* the step makes a send attempt to the device
Attempted(d) == attempts'[d] = attempts[d] + 1

\* the step is a delivery pass: send_to_user called for a Notification, or
\* for every admin by send_to_admins
DeliveryPass == \E d \in Devices : Attempted(d)

\* the step is the delivery of a Notification by send_push_notification
PushStep == job.pc = "push" /\ job'.pc # "push"

MarkStep == ops' = ops + 1 /\ resp'.op = "mark_read"

\* the ids of the request that are rows of the requester
OwnRows(u, ids) ==
    {i \in DOMAIN notifications :
        i \in ids /\ notifications[i].recipient = u}

\* C32: a mark_read request that lists an id which is no row or a row of
\* another user is answered 400 and changes no row; any other request is
\* answered 200, sets the listed rows of the caller to Read and leaves
\* every other row, those of other users among them, as it was.
C32_MarkReadAllOrNothing ==
    [][MarkStep =>
         LET u == resp'.user
             ids == resp'.notification_ids
         IN  IF ids # OwnRows(u, ids)
             THEN resp'.code = 400 /\ notifications' = notifications
             ELSE /\ resp'.code = 200
                  /\ \A i \in DOMAIN notifications :
                        IF i \in ids
                        THEN notifications'[i].status = READ
                        ELSE notifications'[i] = notifications[i]]_vars

\* a request that listed a row of the caller together with a row of
\* another user was answered 400, and the caller's row is still unread
C32_Witness ==
    /\ resp.op = "mark_read"
    /\ resp.code = 400
    /\ \E i, j \in resp.notification_ids \cap DOMAIN notifications :
          /\ notifications[i].recipient = resp.user
          /\ notifications[i].status # READ
          /\ notifications[j].recipient # resp.user

\* C33: a mark_read request that repeats the caller's previous successful
\* request, with the same ids, is answered 200 with 0 rows marked and
\* changes no row: every listed row is Read with the read_at of the first
\* marking.
C33_MarkReadIdempotent ==
    [][(/\ MarkStep
        /\ resp.op = "mark_read"
        /\ resp.code = 200
        /\ resp'.user = resp.user
        /\ resp'.notification_ids = resp.notification_ids)
          => /\ resp'.code = 200
             /\ resp'.marked_read = 0
             /\ notifications' = notifications
             /\ \A i \in resp.notification_ids :
                   notifications'[i].status = READ]_vars

\* the second of two requests reported 0 rows marked, and a row it lists
\* has the read_at of the first request
C33_Witness ==
    /\ ops = 2
    /\ resp.op = "mark_read"
    /\ resp.code = 200
    /\ resp.marked_read = 0
    /\ \E i \in resp.notification_ids :
          /\ notifications[i].status = READ
          /\ notifications[i].read_at = <<0>>

\* C34: every status-change Notification names as its acting admin the user
\* who performed the transition: whenever a save has scheduled a user
\* notification, the admin it will record is the requester of that save
C34_ActingAdminIsActor ==
    \A u \in Users :
        req[u].notify_user_action # "none" => req[u].notify_admin_user = u

\* the admin endpoint lets user move the stored transaction to Completed
\* or Failed: every check of update() passes for some such payload
PermittedToFinish(user) ==
    /\ is_staff(user)
    /\ IsAdminOrReadOnly(user, "PATCH")
    /\ AdminQuerysetHas(user)
    /\ check_transaction_access(tx, user)
    /\ ~UpdateForbidden(tx, user)
    /\ \E attrs \in Payloads : /\ attrs.status \in {COMPLETED, FAILED}
                               /\ is_valid(tx, attrs)

\* C35: no Processing transaction is orphaned: in every reachable state a
\* transaction in Processing has at least one staff user who is permitted
\* to move it to Completed or Failed
C35_NoOrphanedProcessing ==
    (tx.exists /\ tx.status = PROCESSING)
        => \E u \in Staff : PermittedToFinish(u)

\* the status of every Notification row has its timestamp
StampsAgree ==
    \A i \in DOMAIN notifications :
        /\ notifications[i].status = SENT => notifications[i].sent_at # NoTime
        /\ notifications[i].status = READ => notifications[i].read_at # NoTime

\* no step turns a timestamp that is set back into NULL
StampsKept ==
    \A i \in DOMAIN notifications :
        /\ notifications[i].sent_at # NoTime
              => notifications'[i].sent_at # NoTime
        /\ notifications[i].read_at # NoTime
              => notifications'[i].read_at # NoTime

Accepts(c) ==
    /\ verify[c].pc = "compare"
    /\ verify'[c].pc = "idle"
    /\ Len(accepted') = Len(accepted) + 1

\* no stored OTP was accepted twice
SingleUse ==
    \A i, j \in 1 .. Len(accepted) : accepted[i] = accepted[j] => i = j

\* what is accepted is what the cache holds for the email and the purpose of
\* the request when verify_otp returns: the newest OTP stored for them
NewestOnly ==
    \A c \in Clients :
        Accepts(c) =>
            LET stored == cache[cache_key("password_reset", verify[c].email)]
            IN  /\ stored # NoOtp
                /\ stored.id = accepted'[Len(accepted')]
                /\ stored.otp = verify[c].otp

\* C37: an OTP is single-use and purpose-bound: a stored OTP for (email,
\* purpose) authorises at most one successful verification, also when two
\* verifications with the same code overlap; it is not accepted for another
\* purpose or email, and not after a newer OTP was stored for the same
\* (email, purpose).
C37_OtpSingleUse == []SingleUse /\ [][NewestOnly]_vars

\* what forgot_password can answer
ForgotResponses ==
    {ForgotAccepted, ForgotFailed}
        \cup {AuthResponse("forgot_password", 400, FALSE,
                  "Password reset request failed due to validation errors.",
                  <<"email", validate_email(email)>>) : email \in Emails}

\* forgot_password answers r to email when send_mail behaves as sent tells
ForgotAnswers(email, sent, r) == forgot_password(email, sent) /\ resp' = r

\* C38: forgot_password does not reveal whether an email belongs to an
\* active account: a well-formed email with an active account and one
\* without get the same response (status and body) in every outcome, also
\* when sending the mail fails.
C38_ForgotPasswordSameAnswer ==
    \A e1 \in WellFormed, e2 \in WellFormed, sent \in BOOLEAN :
        (ops < MaxAuth /\ ActiveUser(e1) /\ ~ActiveUser(e2)) =>
            \A r \in ForgotResponses :
                ENABLED ForgotAnswers(e1, sent, r)
                    <=> ENABLED ForgotAnswers(e2, sent, r)

=============================================================================
